---- MODULE Spec2Model ----
(***************************************************************************)
(* A state-machine model of package bubblesort                             *)
(* (sorting/bubblesort/buble_sort.go): the generic functions Sort and      *)
(* SortWithComparator, executed statement by statement on a slice whose    *)
(* backing array lives in a small heap.                                    *)
(*                                                                         *)
(* Positions are zero-based as in the Go source; the backing array is a    *)
(* TLA+ sequence, so element i of the slice is heap[arr][i + 1].           *)
(***************************************************************************)
EXTENDS Integers, Sequences, FiniteSets, TLC

(***************************************************************************)
(* Bounds of the model.                                                    *)
(***************************************************************************)
MaxLen == 3        \* longest input slice
MaxVal == 1        \* Sort is run on integers in -MaxVal .. MaxVal
NumElems == 3      \* SortWithComparator is run on NumElems distinct values of T
MaxRounds == 2     \* a caller calls at most MaxRounds times on the same slice
NumCalls == 2      \* call frames of the model (only frame 1 runs in Spec)
ParLen == 2        \* longest input slice of two concurrent calls
ParMax == 2        \* concurrent calls sort integers in 0 .. ParMax
IntBits == 3       \* width w of the machine integer in the model of `a.Age - b.Age`
PeopleLen == 3     \* longest slice of Person records sorted twice
NumNames == 2      \* Person.Name is one of NumNames strings, modelled by their rank
NumAges == 2       \* Person.Age is in 1 .. NumAges when sorted twice
NumGoroutines == 3 \* goroutines that call Counter.Inc
MaxInitial == 2    \* Counter.Count starts in 0 .. MaxInitial
MaxWalletCalls == 3 \* calls made on the wallet
MaxPrior == 2      \* writes already in the io.Writer when Countdown is called
MaxDuration == 2   \* ConfigurableSleeper.duration is in 1 .. MaxDuration
MaxTailLen == 3    \* longest slice passed to SumAllTails
MaxTailVal == 2    \* the slices passed to SumAllTails hold integers in 1 .. MaxTailVal

Calls == 1..NumCalls
Vals == (0 - MaxVal)..MaxVal
T == 1..NumElems
Keys == 1..NumElems
ParVals == 0..ParMax

SeqsUpTo(S, m) == UNION {[1..k -> S] : k \in 0..m}

VARIABLES
    heap,        \* heap[a]: contents of backing array a (array c belongs to call c)
    fn,          \* fn[c]: the function call c runs: "Sort", "SortWithComparator", "none"
    cmpfn,       \* cmpfn[c]: the comparator function passed to call c, as far as known
    items,       \* items[c]: the parameter items, a slice header [arr, len]
    n,           \* n[c]: the local n
    i,           \* i[c]: the local i
    swapped,     \* swapped[c]: the local swapped
    pc,          \* pc[c]: the statement call c is at
    ret,         \* ret[c]: the returned slice header, NoSlice before the return
    input,       \* input[c]: contents of the caller's slice when the call started
    log,         \* log[c]: passes, comparisons and swaps of the running call, in order
    round,       \* round[c]: how many times the caller has called on this slice
    hist,        \* hist[c]: [in, out] of every finished call on this slice
    \* documents/testing/sync: one Counter and the goroutines calling Inc
    mu,          \* Counter.mu: 0 when unlocked, else the goroutine holding it
    count,       \* Counter.Count (the field c.Count)
    gpc,         \* gpc[g]: the statement of Inc goroutine g is at
    reg,         \* reg[g]: the value of c.Count goroutine g loaded for `c.Count++`
    initial,     \* Counter.Count before the goroutines were started
    \* documents/testing/pointersanderrors: one Wallet and its caller
    balance,     \* Wallet.balance
    err,         \* what the last call on the wallet returned
    ops,         \* the calls made on the wallet: [name, amount, before, after, err]
    \* documents/testing/mocking: one call of Countdown
    out,         \* what has been written to the io.Writer out
    clock,       \* time that has passed in Sleep
    events,      \* writes and sleeps of the call, in order
    ci,          \* the loop variable i of Countdown
    cpc,         \* the statement Countdown is at
    duration,    \* ConfigurableSleeper.duration
    \* arraysandslices: one call of SumAllTails
    tailsToSum,  \* the parameter tailsToSum
    sums,        \* the local sums
    tk,          \* index of the range loop over tailsToSum
    tpc          \* the statement SumAllTails is at

sortVars == <<heap, fn, cmpfn, items, n, i, swapped, pc, ret, input, log, round, hist>>
counterVars == <<mu, count, gpc, reg, initial>>
walletVars == <<balance, err, ops>>
countdownVars == <<out, clock, events, ci, cpc, duration>>
tailsVars == <<tailsToSum, sums, tk, tpc>>

\* The variables of the programs under documents/.
docVars == <<counterVars, walletVars, countdownVars, tailsVars>>

vars == <<sortVars, docVars>>

Goroutines == 1..NumGoroutines

\* No goroutine has been started on the counter.
CounterIdle ==
    /\ mu = 0 /\ count = 0 /\ initial = 0
    /\ gpc = [g \in Goroutines |-> "idle"]
    /\ reg = [g \in Goroutines |-> 0]

\* The zero-value Wallet, not used yet.
WalletIdle == balance = 0 /\ err = "none" /\ ops = <<>>

\* Countdown has not been called.
CountdownIdle ==
    /\ out = <<>> /\ clock = 0 /\ events = <<>>
    /\ ci = 0 /\ cpc = "idle" /\ duration = 0

\* SumAllTails has not been called.
TailsIdle ==
    /\ tailsToSum = <<>> /\ sums = <<>> /\ tk = 0 /\ tpc = "idle"

NoSlice == [arr |-> 0, len |-> 0]

\* The slice header the caller passes to call c: the whole of backing array c.
CallerSlice(c) == [arr |-> c, len |-> Len(input[c])]

\* The elements seen through a slice header.
Contents(s) == IF s.arr \in Calls THEN SubSeq(heap[s.arr], 1, s.len) ELSE <<>>

\* len(items)
LenOf(s) == s.len

\* items[k] is inside the slice (Go panics on an index outside 0 .. len-1).
InRange(s, k) == k >= 0 /\ k < s.len

\* Mutant: every call reads through one shared buffer, the first call's array.
AtFirst(c, k) == heap[1][k + 1]

\* items[k], zero-based
At(c, k) == heap[items[c].arr][k + 1]

(***************************************************************************)
(* The expressions of the source that the statements below are built from. *)
(***************************************************************************)

\* `if n <= 1 { return items }`
TooShort(k) == k <= 1

\* Mutant: the comparison the wrong way round.
GreaterReversed(a, b) == a < b

\* Mutant: `>=`, so that equal elements are swapped too.
GreaterOrEqual(a, b) == a >= b

\* `items[i] > items[i+1]`, the swap test of Sort
Greater(a, b) == a > b

\* Mutant: only the answer 1 counts as `after`.
SaysAfterOnlyOne(r) == r = 1

\* Mutant: `>= 0`, so that equal elements are swapped too.
SaysAfterOrEqual(r) == r >= 0

\* `comparator(items[i], items[i+1]) > 0`, the swap test of SortWithComparator
SaysAfter(r) == r > 0

\* Mutant: `i < n`, one turn too many.
InScanOneMore(k, bound) == k < bound

\* `i < n-1`, the condition of the inner loop
InScan(k, bound) == k < bound - 1

\* Mutant: the bound shrinks by two.
ShrinkByTwo(bound) == bound - 2

\* Mutant: the `n--` is missing.
ShrinkNever(bound) == bound

\* `n--`, the end of a pass
Shrink(bound) == bound - 1

\* Mutant: `items[i] = items[i+1]; items[i+1] = items[i]`, the first write lost.
ExchangeOverwrite(s, k) ==
    [s EXCEPT ![k + 1] = s[k + 2]]

\* `items[i], items[i+1] = items[i+1], items[i]` on backing array s (zero-based k)
Exchange(s, k) ==
    [s EXCEPT ![k + 1] = s[k + 2], ![k + 2] = s[k + 1]]

\* Mutant: `return nil` for a slice of at most one element.
ReturnedNilIfShort(c) == IF items[c].len <= 1 THEN NoSlice ELSE items[c]

\* Mutant: `return items[:n]`.
ReturnedUpToN(c) == [arr |-> items[c].arr, len |-> n[c]]

\* `return items`
Returned(c) == items[c]

(***************************************************************************)
(* Comparators.  A comparator is a function of two elements of T to the    *)
(* integers.  cmpfn[c] holds the function passed to call c: all of it when *)
(* it is known from the start, or the answers it has given so far when the *)
(* caller's function is arbitrary (a pure function answers a pair it has   *)
(* already answered the same way).                                         *)
(***************************************************************************)
Pairs == T \X T
CmpResults == {0 - 1, 0, 1}
Unknown == <<>>

\* The comparator of the tests: `a.Age - b.Age`, with key[x] the Age of x.
ByKey(key) == [p \in Pairs |-> key[p[1]] - key[p[2]]]

\* Every total preorder of T is the order of some key assignment.
ValidComparators == {ByKey(key) : key \in [T -> Keys]}

\* The values comparator(a, b) may return in call c.
Answers(c, a, b) ==
    IF <<a, b>> \in DOMAIN cmpfn[c] THEN {cmpfn[c][<<a, b>>]} ELSE CmpResults

\* cmpfn[c] after comparator(a, b) returned r.
Learn(c, a, b, r) ==
    IF <<a, b>> \in DOMAIN cmpfn[c] THEN cmpfn[c] ELSE (<<a, b>> :> r) @@ cmpfn[c]

\* An entry of log[c].
Ev(op, at, r) == [op |-> op, at |-> at, r |-> r]

(***************************************************************************)
(* Initial states: the caller holds a slice and is about to call.          *)
(***************************************************************************)
Start(f, s, cf) ==
    /\ heap = [c \in Calls |-> IF c = 1 THEN s ELSE <<>>]
    /\ fn = [c \in Calls |-> IF c = 1 THEN f ELSE "none"]
    /\ cmpfn = [c \in Calls |-> IF c = 1 THEN cf ELSE Unknown]
    /\ items = [c \in Calls |-> IF c = 1 THEN [arr |-> 1, len |-> Len(s)] ELSE NoSlice]
    /\ n = [c \in Calls |-> 0]
    /\ i = [c \in Calls |-> 0]
    /\ swapped = [c \in Calls |-> FALSE]
    /\ pc = [c \in Calls |-> IF c = 1 THEN "entry" ELSE "idle"]
    /\ ret = [c \in Calls |-> NoSlice]
    /\ input = [c \in Calls |-> IF c = 1 THEN s ELSE <<>>]
    /\ log = [c \in Calls |-> <<>>]
    /\ round = [c \in Calls |-> IF c = 1 THEN 1 ELSE 0]
    /\ hist = [c \in Calls |-> <<>>]
    /\ CounterIdle /\ WalletIdle /\ CountdownIdle /\ TailsIdle

\* Sort on integers, or SortWithComparator on T with a valid comparator.
Init ==
    \/ \E s \in SeqsUpTo(Vals, MaxLen) : Start("Sort", s, Unknown)
    \/ \E s \in SeqsUpTo(T, MaxLen) : \E cf \in ValidComparators :
          Start("SortWithComparator", s, cf)

\* SortWithComparator on T with an arbitrary comparator function.
InitAny ==
    \E s \in SeqsUpTo(T, MaxLen) : Start("SortWithComparator", s, Unknown)

(***************************************************************************)
(* Sort, statement by statement.                                           *)
(***************************************************************************)

\* n := len(items); if n <= 1 { return items }; swapped := true
SortEntry(c) ==
    /\ fn[c] = "Sort" /\ pc[c] = "entry"
    /\ n' = [n EXCEPT ![c] = LenOf(items[c])]
    /\ IF TooShort(LenOf(items[c]))
          THEN /\ pc' = [pc EXCEPT ![c] = "return"]
               /\ UNCHANGED swapped
          ELSE /\ pc' = [pc EXCEPT ![c] = "outer"]
               /\ swapped' = [swapped EXCEPT ![c] = TRUE]
    /\ UNCHANGED <<heap, fn, cmpfn, items, i, ret, input, log, round, hist>>
    /\ UNCHANGED docVars

\* Mutant: `swapped` is a package-level variable, shared by all calls.
SortOuterSharedFlag(c) ==
    /\ fn[c] = "Sort" /\ pc[c] = "outer"
    /\ IF swapped[c]
          THEN /\ swapped' = [d \in Calls |-> FALSE]
               /\ i' = [i EXCEPT ![c] = 0]
               /\ log' = [log EXCEPT ![c] = Append(@, Ev("pass", 0, n[c]))]
               /\ pc' = [pc EXCEPT ![c] = "inner"]
          ELSE /\ pc' = [pc EXCEPT ![c] = "return"]
               /\ UNCHANGED <<swapped, i, log>>
    /\ UNCHANGED <<heap, fn, cmpfn, items, n, ret, input, round, hist>>
    /\ UNCHANGED docVars

\* Mutant: the `swapped = false` at the start of a pass is missing.
SortOuterNoReset(c) ==
    /\ fn[c] = "Sort" /\ pc[c] = "outer"
    /\ IF swapped[c]
          THEN /\ i' = [i EXCEPT ![c] = 0]
               /\ log' = [log EXCEPT ![c] = Append(@, Ev("pass", 0, n[c]))]
               /\ pc' = [pc EXCEPT ![c] = "inner"]
               /\ UNCHANGED swapped
          ELSE /\ pc' = [pc EXCEPT ![c] = "return"]
               /\ UNCHANGED <<swapped, i, log>>
    /\ UNCHANGED <<heap, fn, cmpfn, items, n, ret, input, round, hist>>
    /\ UNCHANGED docVars

\* for swapped { swapped = false; i := 0 ... }
SortOuter(c) ==
    /\ fn[c] = "Sort" /\ pc[c] = "outer"
    /\ IF swapped[c]
          THEN /\ swapped' = [swapped EXCEPT ![c] = FALSE]
               /\ i' = [i EXCEPT ![c] = 0]
               /\ log' = [log EXCEPT ![c] = Append(@, Ev("pass", 0, n[c]))]
               /\ pc' = [pc EXCEPT ![c] = "inner"]
          ELSE /\ pc' = [pc EXCEPT ![c] = "return"]
               /\ UNCHANGED <<swapped, i, log>>
    /\ UNCHANGED <<heap, fn, cmpfn, items, n, ret, input, round, hist>>
    /\ UNCHANGED docVars

\* One turn of `for i:=0; i < n-1; i++ { if items[i] > items[i+1] { swap;
\* swapped = true } }`, and `n--` when the scan is over.
SortInner(c) ==
    /\ fn[c] = "Sort" /\ pc[c] = "inner"
    /\ IF ~InScan(i[c], n[c])
          THEN /\ n' = [n EXCEPT ![c] = Shrink(n[c])]
               /\ pc' = [pc EXCEPT ![c] = "outer"]
               /\ UNCHANGED <<heap, swapped, i, log>>
          ELSE IF ~(InRange(items[c], i[c]) /\ InRange(items[c], i[c] + 1))
          THEN /\ pc' = [pc EXCEPT ![c] = "panic"]
               /\ log' = [log EXCEPT ![c] = Append(@, Ev("cmp", i[c], 0))]
               /\ UNCHANGED <<heap, swapped, i, n>>
          ELSE /\ IF Greater(At(c, i[c]), At(c, i[c] + 1))
                     THEN /\ heap' = [heap EXCEPT ![items[c].arr] = Exchange(@, i[c])]
                          /\ swapped' = [swapped EXCEPT ![c] = TRUE]
                          /\ log' = [log EXCEPT ![c] =
                                        @ \o <<Ev("cmp", i[c], 1), Ev("swap", i[c], 0)>>]
                     ELSE /\ log' = [log EXCEPT ![c] = Append(@, Ev("cmp", i[c], 0))]
                          /\ UNCHANGED <<heap, swapped>>
               /\ i' = [i EXCEPT ![c] = @ + 1]
               /\ UNCHANGED <<pc, n>>
    /\ UNCHANGED <<fn, cmpfn, items, ret, input, round, hist>>
    /\ UNCHANGED docVars

\* return items
SortReturn(c) ==
    /\ fn[c] = "Sort" /\ pc[c] = "return"
    /\ ret' = [ret EXCEPT ![c] = Returned(c)]
    /\ hist' = [hist EXCEPT ![c] =
                   Append(@, [in |-> input[c], out |-> Contents(Returned(c))])]
    /\ pc' = [pc EXCEPT ![c] = "done"]
    /\ UNCHANGED <<heap, fn, cmpfn, items, n, i, swapped, input, log, round>>
    /\ UNCHANGED docVars

(***************************************************************************)
(* SortWithComparator, statement by statement.                             *)
(***************************************************************************)

\* n := len(items); if n <= 1 { return items }; swapped := true
CmpEntry(c) ==
    /\ fn[c] = "SortWithComparator" /\ pc[c] = "entry"
    /\ n' = [n EXCEPT ![c] = LenOf(items[c])]
    /\ IF TooShort(LenOf(items[c]))
          THEN /\ pc' = [pc EXCEPT ![c] = "return"]
               /\ UNCHANGED swapped
          ELSE /\ pc' = [pc EXCEPT ![c] = "outer"]
               /\ swapped' = [swapped EXCEPT ![c] = TRUE]
    /\ UNCHANGED <<heap, fn, cmpfn, items, i, ret, input, log, round, hist>>
    /\ UNCHANGED docVars

\* for swapped { swapped = false; i := 0 ... }
CmpOuter(c) ==
    /\ fn[c] = "SortWithComparator" /\ pc[c] = "outer"
    /\ IF swapped[c]
          THEN /\ swapped' = [swapped EXCEPT ![c] = FALSE]
               /\ i' = [i EXCEPT ![c] = 0]
               /\ log' = [log EXCEPT ![c] = Append(@, Ev("pass", 0, n[c]))]
               /\ pc' = [pc EXCEPT ![c] = "inner"]
          ELSE /\ pc' = [pc EXCEPT ![c] = "return"]
               /\ UNCHANGED <<swapped, i, log>>
    /\ UNCHANGED <<heap, fn, cmpfn, items, n, ret, input, round, hist>>
    /\ UNCHANGED docVars

\* One turn of `for i := 0; i < n -1; i++ { if comparator(items[i], items[i+1]) > 0
\* { swap; swapped = true } }`, and `n--` when the scan is over.
CmpInner(c) ==
    /\ fn[c] = "SortWithComparator" /\ pc[c] = "inner"
    /\ IF ~InScan(i[c], n[c])
          THEN /\ n' = [n EXCEPT ![c] = Shrink(n[c])]
               /\ pc' = [pc EXCEPT ![c] = "outer"]
               /\ UNCHANGED <<heap, cmpfn, swapped, i, log>>
          ELSE IF ~(InRange(items[c], i[c]) /\ InRange(items[c], i[c] + 1))
          THEN /\ pc' = [pc EXCEPT ![c] = "panic"]
               /\ log' = [log EXCEPT ![c] = Append(@, Ev("cmp", i[c], 0))]
               /\ UNCHANGED <<heap, cmpfn, swapped, i, n>>
          ELSE /\ \E r \in Answers(c, At(c, i[c]), At(c, i[c] + 1)) :
                     /\ cmpfn' = [cmpfn EXCEPT ![c] =
                                     Learn(c, At(c, i[c]), At(c, i[c] + 1), r)]
                     /\ IF SaysAfter(r)
                           THEN /\ heap' = [heap EXCEPT ![items[c].arr] =
                                               Exchange(@, i[c])]
                                /\ swapped' = [swapped EXCEPT ![c] = TRUE]
                                /\ log' = [log EXCEPT ![c] =
                                              @ \o <<Ev("cmp", i[c], r),
                                                     Ev("swap", i[c], 0)>>]
                           ELSE /\ log' = [log EXCEPT ![c] =
                                              Append(@, Ev("cmp", i[c], r))]
                                /\ UNCHANGED <<heap, swapped>>
               /\ i' = [i EXCEPT ![c] = @ + 1]
               /\ UNCHANGED <<pc, n>>
    /\ UNCHANGED <<fn, items, ret, input, round, hist>>
    /\ UNCHANGED docVars

\* return items
CmpReturn(c) ==
    /\ fn[c] = "SortWithComparator" /\ pc[c] = "return"
    /\ ret' = [ret EXCEPT ![c] = Returned(c)]
    /\ hist' = [hist EXCEPT ![c] =
                   Append(@, [in |-> input[c], out |-> Contents(Returned(c))])]
    /\ pc' = [pc EXCEPT ![c] = "done"]
    /\ UNCHANGED <<heap, fn, cmpfn, items, n, i, swapped, input, log, round>>
    /\ UNCHANGED docVars

(***************************************************************************)
(* The caller calls again on the slice it got back, as in Sort(Sort(s)):   *)
(* the same function, and for SortWithComparator the same comparator.      *)
(***************************************************************************)
CallAgain(c) ==
    /\ pc[c] = "done" /\ round[c] < MaxRounds
    /\ items' = [items EXCEPT ![c] = ret[c]]
    /\ input' = [input EXCEPT ![c] = Contents(ret[c])]
    /\ n' = [n EXCEPT ![c] = 0]
    /\ i' = [i EXCEPT ![c] = 0]
    /\ swapped' = [swapped EXCEPT ![c] = FALSE]
    /\ ret' = [ret EXCEPT ![c] = NoSlice]
    /\ log' = [log EXCEPT ![c] = <<>>]
    /\ round' = [round EXCEPT ![c] = @ + 1]
    /\ pc' = [pc EXCEPT ![c] = "entry"]
    /\ UNCHANGED <<heap, fn, cmpfn, hist>>
    /\ UNCHANGED docVars

SortStep(c) ==
    SortEntry(c) \/ SortOuter(c) \/ SortInner(c) \/ SortReturn(c)

CmpStep(c) ==
    CmpEntry(c) \/ CmpOuter(c) \/ CmpInner(c) \/ CmpReturn(c)

Next == \E c \in Calls : SortStep(c) \/ CmpStep(c) \/ CallAgain(c)

NextAny == \E c \in Calls : CmpStep(c)

\* Sort on integers and SortWithComparator with valid comparators.
Spec == Init /\ [][Next]_vars

\* One call: Sort on integers or SortWithComparator with a valid comparator.
NextOnce == \E c \in Calls : SortStep(c) \/ CmpStep(c)

SpecOnce == Init /\ [][NextOnce]_vars

\* SortWithComparator with an arbitrary comparator function.
SpecAny == InitAny /\ [][NextAny]_vars

\* A call is synchronous and never suspended: a step that can be taken is taken.
FairSpecAny == InitAny /\ [][NextAny]_vars /\ WF_vars(NextAny)

(***************************************************************************)
(* Sorting Person records by age with the comparator of the tests and the  *)
(* README, `a.Age - b.Age`.  Age is a machine integer of IntBits bits, the *)
(* subtraction wraps around (two's complement).  A Person is represented   *)
(* by its Age, the only field the comparator reads.                        *)
(***************************************************************************)
MinInt == 0 - 2 ^ (IntBits - 1)
MaxInt == 2 ^ (IntBits - 1) - 1
MachineInts == MinInt..MaxInt

\* x reduced modulo 2^IntBits into MinInt .. MaxInt
Wrap(x) == ((x - MinInt) % (2 ^ IntBits)) + MinInt

\* func(a, b Person) int { return a.Age - b.Age }
AgeDiff == [p \in MachineInts \X MachineInts |-> Wrap(p[1] - p[2])]

InitAge ==
    \E s \in SeqsUpTo(MachineInts, MaxLen) : Start("SortWithComparator", s, AgeDiff)

SpecAge == InitAge /\ [][NextAny]_vars

(***************************************************************************)
(* Two runs.  When call c has returned, the caller makes a fresh copy of   *)
(* the input it gave to call c and passes it to the next call d, running   *)
(* function f with comparator cf.                                          *)
(***************************************************************************)
SecondCall(c, d, f, cf) ==
    /\ pc[c] = "done" /\ d = c + 1 /\ d \in Calls /\ pc[d] = "idle"
    /\ heap' = [heap EXCEPT ![d] = input[c]]
    /\ fn' = [fn EXCEPT ![d] = f]
    /\ cmpfn' = [cmpfn EXCEPT ![d] = cf]
    /\ items' = [items EXCEPT ![d] = [arr |-> d, len |-> Len(input[c])]]
    /\ input' = [input EXCEPT ![d] = input[c]]
    /\ round' = [round EXCEPT ![d] = 1]
    /\ pc' = [pc EXCEPT ![d] = "entry"]
    /\ UNCHANGED <<n, i, swapped, ret, log, hist>>
    /\ UNCHANGED docVars

\* SortWithComparator again, on an equal input and with the same comparator
\* function (its answers so far stay its answers).
RunSame(c, d) ==
    /\ fn[c] = "SortWithComparator"
    /\ SecondCall(c, d, "SortWithComparator", cmpfn[c])

NextTwice == \E c \in Calls : CmpStep(c) \/ \E d \in Calls : RunSame(c, d)

\* SortWithComparator with an arbitrary comparator function, run after run on
\* equal inputs.
SpecTwice == InitAny /\ [][NextTwice]_vars

(***************************************************************************)
(* Two concurrent calls of Sort, each on its own slice, their statements   *)
(* interleaved in any order.                                               *)
(***************************************************************************)
StartTwo(s1, s2) ==
    /\ heap = [c \in Calls |-> IF c = 1 THEN s1 ELSE IF c = 2 THEN s2 ELSE <<>>]
    /\ fn = [c \in Calls |-> IF c \in {1, 2} THEN "Sort" ELSE "none"]
    /\ cmpfn = [c \in Calls |-> Unknown]
    /\ items = [c \in Calls |->
                   IF c = 1 THEN [arr |-> 1, len |-> Len(s1)]
                   ELSE IF c = 2 THEN [arr |-> 2, len |-> Len(s2)] ELSE NoSlice]
    /\ n = [c \in Calls |-> 0]
    /\ i = [c \in Calls |-> 0]
    /\ swapped = [c \in Calls |-> FALSE]
    /\ pc = [c \in Calls |-> IF c \in {1, 2} THEN "entry" ELSE "idle"]
    /\ ret = [c \in Calls |-> NoSlice]
    /\ input = [c \in Calls |-> IF c = 1 THEN s1 ELSE IF c = 2 THEN s2 ELSE <<>>]
    /\ log = [c \in Calls |-> <<>>]
    /\ round = [c \in Calls |-> IF c \in {1, 2} THEN 1 ELSE 0]
    /\ hist = [c \in Calls |-> <<>>]
    /\ CounterIdle /\ WalletIdle /\ CountdownIdle /\ TailsIdle

InitPar ==
    \E s1 \in SeqsUpTo(ParVals, ParLen) : \E s2 \in SeqsUpTo(ParVals, ParLen) :
        StartTwo(s1, s2)

NextPar == \E c \in Calls : SortStep(c)

SpecPar == InitPar /\ [][NextPar]_vars

(***************************************************************************)
(* Sort and SortWithComparator side by side on integers: call 1 is Sort(S), *)
(* call 2 is SortWithComparator(S', C) on a copy S' of S, with C a          *)
(* three-way comparator of the natural order.                               *)
(***************************************************************************)

\* func(a, b int) int { if a < b { return -1 }; if a > b { return 1 }; return 0 }
ThreeWay == [p \in Vals \X Vals |->
                IF p[1] < p[2] THEN 0 - 1 ELSE IF p[1] > p[2] THEN 1 ELSE 0]

\* func(a, b int) int { return a - b }, without overflow on Vals
Difference == [p \in Vals \X Vals |-> p[1] - p[2]]

NaturalComparators == {ThreeWay, Difference}

StartBoth(s, cf) ==
    /\ heap = [c \in Calls |-> IF c \in {1, 2} THEN s ELSE <<>>]
    /\ fn = [c \in Calls |->
                IF c = 1 THEN "Sort" ELSE IF c = 2 THEN "SortWithComparator" ELSE "none"]
    /\ cmpfn = [c \in Calls |-> IF c = 2 THEN cf ELSE Unknown]
    /\ items = [c \in Calls |->
                   IF c \in {1, 2} THEN [arr |-> c, len |-> Len(s)] ELSE NoSlice]
    /\ n = [c \in Calls |-> 0]
    /\ i = [c \in Calls |-> 0]
    /\ swapped = [c \in Calls |-> FALSE]
    /\ pc = [c \in Calls |-> IF c \in {1, 2} THEN "entry" ELSE "idle"]
    /\ ret = [c \in Calls |-> NoSlice]
    /\ input = [c \in Calls |-> IF c \in {1, 2} THEN s ELSE <<>>]
    /\ log = [c \in Calls |-> <<>>]
    /\ round = [c \in Calls |-> IF c \in {1, 2} THEN 1 ELSE 0]
    /\ hist = [c \in Calls |-> <<>>]
    /\ CounterIdle /\ WalletIdle /\ CountdownIdle /\ TailsIdle

InitBoth ==
    \E s \in SeqsUpTo(Vals, MaxLen) : \E cf \in NaturalComparators : StartBoth(s, cf)

SpecBoth == InitBoth /\ [][NextOnce]_vars

(***************************************************************************)
(* The slice `people` of the tests, sorted twice in place: by one of the   *)
(* two comparators of the tests, and then, the slice as the first call     *)
(* left it, by one of them again.                                          *)
(***************************************************************************)
Names == 1..NumNames
Ages == 1..NumAges

\* type Person struct { Name string; Age int }
Persons == [Name : Names, Age : Ages]

\* func(a, b Person) int { return a.Age - b.Age }
ByAge == [p \in Persons \X Persons |-> p[1].Age - p[2].Age]

\* func(a, b Person) int { if a.Name < b.Name { return -1 } else if
\* a.Name > b.Name { return 1 } else { return 0 } }
ByName == [p \in Persons \X Persons |->
              IF p[1].Name < p[2].Name THEN 0 - 1
              ELSE IF p[1].Name > p[2].Name THEN 1 ELSE 0]

PersonComparators == {ByAge, ByName}

InitPeople ==
    \E s \in SeqsUpTo(Persons, PeopleLen) : \E cf \in PersonComparators :
        Start("SortWithComparator", s, cf)

\* Call c has returned; the caller passes the same slice to SortWithComparator
\* again, as call d, with comparator cf.
SortAgainBy(c, d, cf) ==
    /\ pc[c] = "done" /\ round[c] = 1
    /\ d = c + 1 /\ d \in Calls /\ pc[d] = "idle"
    /\ fn' = [fn EXCEPT ![d] = "SortWithComparator"]
    /\ cmpfn' = [cmpfn EXCEPT ![d] = cf]
    /\ items' = [items EXCEPT ![d] = ret[c]]
    /\ input' = [input EXCEPT ![d] = Contents(ret[c])]
    /\ round' = [round EXCEPT ![d] = 2]
    /\ pc' = [pc EXCEPT ![d] = "entry"]
    /\ UNCHANGED <<heap, n, i, swapped, ret, log, hist>>
    /\ UNCHANGED docVars

NextPeople ==
    \E c \in Calls :
        \/ CmpStep(c)
        \/ \E d \in Calls : \E cf \in PersonComparators : SortAgainBy(c, d, cf)

SpecPeople == InitPeople /\ [][NextPeople]_vars

(***************************************************************************)
(* BubbleSort(s Sortable) of interface_example.md, on the two types of the *)
(* example.  The loops are computed as functions of the backing array; a   *)
(* call of BubbleSort is one step.                                         *)
(***************************************************************************)
OnIntSlice == "BubbleSort(IntSlice)"
OnPersonSlice == "BubbleSort(PersonSlice)"

\* Mutant: `<=` in Less, so that equal neighbours are swapped too.
LessOrEqual(f, s, a, b) ==
    IF f = OnPersonSlice THEN s[a + 1].Age <= s[b + 1].Age ELSE s[a + 1] <= s[b + 1]

\* s.Less(a, b): `s[i] < s[j]` of IntSlice, `s[i].Age < s[j].Age` of PersonSlice
Less(f, s, a, b) ==
    IF f = OnPersonSlice THEN s[a + 1].Age < s[b + 1].Age ELSE s[a + 1] < s[b + 1]

\* s.Swap(a, b): `s[i], s[j] = s[j], s[i]`
Swap(s, a, b) == [s EXCEPT ![a + 1] = s[b + 1], ![b + 1] = s[a + 1]]

\* s.Length()
Length(s) == Len(s)

RECURSIVE InnerLoop(_, _, _, _)
\* for j := 0; j < s.Length()-i-1; j++ { if s.Less(j+1, j) { s.Swap(j, j+1) } },
\* from j = inner on, in turn outer of the outer loop
InnerLoop(f, s, outer, inner) ==
    IF ~(inner < Length(s) - outer - 1)
       THEN s
       ELSE InnerLoop(f,
                      IF Less(f, s, inner + 1, inner) THEN Swap(s, inner, inner + 1) ELSE s,
                      outer, inner + 1)

RECURSIVE OuterLoop(_, _, _)
\* for i := 0; i < s.Length(); i++ { ... }, from i = outer on
OuterLoop(f, s, outer) ==
    IF ~(outer < Length(s))
       THEN s
       ELSE OuterLoop(f, InnerLoop(f, s, outer, 0), outer + 1)

\* The call BubbleSort(s) of call c, from entry to return.
BubbleSort(c) ==
    /\ fn[c] \in {OnIntSlice, OnPersonSlice} /\ pc[c] = "entry"
    /\ heap' = [heap EXCEPT ![items[c].arr] = OuterLoop(fn[c], @, 0)]
    /\ pc' = [pc EXCEPT ![c] = "done"]
    /\ UNCHANGED <<fn, cmpfn, items, n, i, swapped, ret, input, log, round, hist>>
    /\ UNCHANGED docVars

\* Call 1 is f1 and call 2, if f2 is a function, is f2, each on its own copy of s.
StartPair(f1, f2, s) ==
    LET runs == IF f2 = "none" THEN {1} ELSE {1, 2}
    IN  /\ heap = [c \in Calls |-> IF c \in runs THEN s ELSE <<>>]
        /\ fn = [c \in Calls |-> IF c = 1 THEN f1 ELSE IF c \in runs THEN f2 ELSE "none"]
        /\ cmpfn = [c \in Calls |-> Unknown]
        /\ items = [c \in Calls |->
                       IF c \in runs THEN [arr |-> c, len |-> Len(s)] ELSE NoSlice]
        /\ n = [c \in Calls |-> 0]
        /\ i = [c \in Calls |-> 0]
        /\ swapped = [c \in Calls |-> FALSE]
        /\ pc = [c \in Calls |-> IF c \in runs THEN "entry" ELSE "idle"]
        /\ ret = [c \in Calls |-> NoSlice]
        /\ input = [c \in Calls |-> IF c \in runs THEN s ELSE <<>>]
        /\ log = [c \in Calls |-> <<>>]
        /\ round = [c \in Calls |-> IF c \in runs THEN 1 ELSE 0]
        /\ hist = [c \in Calls |-> <<>>]
        /\ CounterIdle /\ WalletIdle /\ CountdownIdle /\ TailsIdle

\* Sort beside BubbleSort on the same integers, or BubbleSort on people.
InitIface ==
    \/ \E s \in SeqsUpTo(Vals, MaxLen) : StartPair("Sort", OnIntSlice, s)
    \/ \E s \in SeqsUpTo(Persons, PeopleLen) : StartPair(OnPersonSlice, "none", s)

NextIface == \E c \in Calls : SortStep(c) \/ BubbleSort(c)

SpecIface == InitIface /\ [][NextIface]_vars

(***************************************************************************)
(* documents/testing/sync: goroutines calling Inc on one Counter.  Each    *)
(* statement of Inc is a step; `c.Count++` is a load and a store.          *)
(***************************************************************************)

\* No call of Sort, SortWithComparator or BubbleSort is made.
SortIdle ==
    /\ heap = [c \in Calls |-> <<>>]
    /\ fn = [c \in Calls |-> "none"]
    /\ cmpfn = [c \in Calls |-> Unknown]
    /\ items = [c \in Calls |-> NoSlice]
    /\ n = [c \in Calls |-> 0]
    /\ i = [c \in Calls |-> 0]
    /\ swapped = [c \in Calls |-> FALSE]
    /\ pc = [c \in Calls |-> "idle"]
    /\ ret = [c \in Calls |-> NoSlice]
    /\ input = [c \in Calls |-> <<>>]
    /\ log = [c \in Calls |-> <<>>]
    /\ round = [c \in Calls |-> 0]
    /\ hist = [c \in Calls |-> <<>>]

\* A counter whose Count is some initial value, and some goroutines each about
\* to call Inc on it once.
InitCounter ==
    /\ SortIdle /\ WalletIdle /\ CountdownIdle /\ TailsIdle
    /\ mu = 0
    /\ \E v \in 0..MaxInitial : count = v /\ initial = v
    /\ gpc \in [Goroutines -> {"idle", "Lock"}]
    /\ reg = [g \in Goroutines |-> 0]

\* Mutant: Lock returns at once, whether or not the mutex is held.
LockNoWait(g) ==
    /\ gpc[g] = "Lock"
    /\ mu' = g
    /\ gpc' = [gpc EXCEPT ![g] = "defer"]
    /\ UNCHANGED <<count, reg, initial>>
    /\ UNCHANGED <<sortVars, walletVars, countdownVars, tailsVars>>

\* c.mu.Lock(): waits until the mutex is free, then takes it
Lock(g) ==
    /\ gpc[g] = "Lock" /\ mu = 0
    /\ mu' = g
    /\ gpc' = [gpc EXCEPT ![g] = "defer"]
    /\ UNCHANGED <<count, reg, initial>>
    /\ UNCHANGED <<sortVars, walletVars, countdownVars, tailsVars>>

\* defer c.mu.Unlock()
Defer(g) ==
    /\ gpc[g] = "defer"
    /\ gpc' = [gpc EXCEPT ![g] = "load"]
    /\ UNCHANGED <<mu, count, reg, initial>>
    /\ UNCHANGED <<sortVars, walletVars, countdownVars, tailsVars>>

\* c.Count++, the read of c.Count
Load(g) ==
    /\ gpc[g] = "load"
    /\ reg' = [reg EXCEPT ![g] = count]
    /\ gpc' = [gpc EXCEPT ![g] = "store"]
    /\ UNCHANGED <<mu, count, initial>>
    /\ UNCHANGED <<sortVars, walletVars, countdownVars, tailsVars>>

\* c.Count++, the write of c.Count
Store(g) ==
    /\ gpc[g] = "store"
    /\ count' = reg[g] + 1
    /\ gpc' = [gpc EXCEPT ![g] = "Unlock"]
    /\ UNCHANGED <<mu, reg, initial>>
    /\ UNCHANGED <<sortVars, walletVars, countdownVars, tailsVars>>

\* The deferred c.mu.Unlock() and the return of Inc.  Unlock of a mutex that is
\* not locked is a fatal error.
Unlock(g) ==
    /\ gpc[g] = "Unlock"
    /\ IF mu = 0
          THEN gpc' = [gpc EXCEPT ![g] = "fatal"] /\ UNCHANGED mu
          ELSE gpc' = [gpc EXCEPT ![g] = "returned"] /\ mu' = 0
    /\ UNCHANGED <<count, reg, initial>>
    /\ UNCHANGED <<sortVars, walletVars, countdownVars, tailsVars>>

Inc(g) == Lock(g) \/ Defer(g) \/ Load(g) \/ Store(g) \/ Unlock(g)

NextCounter == \E g \in Goroutines : Inc(g)

SpecCounter == InitCounter /\ [][NextCounter]_vars

(***************************************************************************)
(* documents/testing/pointersanderrors: a caller using one Wallet.         *)
(* Bitcoin is an int: IntBits bits wide here, arithmetic wraps around.     *)
(***************************************************************************)
Bitcoin == MachineInts

\* An entry of ops.
Called(name, amount, before, after, e) ==
    [name |-> name, amount |-> amount, before |-> before, after |-> after, err |-> e]

InitWallet ==
    /\ SortIdle /\ CounterIdle /\ CountdownIdle /\ TailsIdle
    /\ WalletIdle

\* func (w *Wallet) Deposit(amount Bitcoin) { w.balance += amount }
Deposit(amount) ==
    /\ Len(ops) < MaxWalletCalls
    /\ balance' = Wrap(balance + amount)
    /\ err' = "none"
    /\ ops' = Append(ops, Called("Deposit", amount, balance, balance', "none"))
    /\ UNCHANGED <<sortVars, counterVars, countdownVars, tailsVars>>

\* Mutant: `amount >= w.balance`.
InsufficientOrEqual(amount, bal) == amount >= bal

\* `if amount > w.balance`
Insufficient(amount, bal) == amount > bal

\* func (w *Wallet) Withdraw(amount Bitcoin) error
Withdraw(amount) ==
    /\ Len(ops) < MaxWalletCalls
    /\ IF Insufficient(amount, balance)
          THEN /\ err' = "ErrInsufficientFunds"
               /\ UNCHANGED balance
          ELSE /\ balance' = Wrap(balance - amount)
               /\ err' = "nil"
    /\ ops' = Append(ops, Called("Withdraw", amount, balance, balance', err'))
    /\ UNCHANGED <<sortVars, counterVars, countdownVars, tailsVars>>

\* Any amounts.
NextWallet == \E amount \in Bitcoin : Deposit(amount) \/ Withdraw(amount)

SpecWallet == InitWallet /\ [][NextWallet]_vars

\* Non-negative amounts only.
NextWalletNonNegative == \E amount \in 0..MaxInt : Deposit(amount) \/ Withdraw(amount)

SpecWalletNonNegative == InitWallet /\ [][NextWalletNonNegative]_vars

(***************************************************************************)
(* documents/testing/mocking: one call Countdown(out, sleeper), with out   *)
(* a writer that may hold earlier writes and sleeper a ConfigurableSleeper. *)
(* A write is [text, nl]: the text and whether a newline follows it.       *)
(***************************************************************************)
finalWord == "Go!"
coundownStart == 3

\* The decimal digits 1 .. 9.
Digits == <<"1", "2", "3", "4", "5", "6", "7", "8", "9">>

\* The decimal form of k, for 0 <= k <= 9, as Fprintln formats an int.
Itoa(k) == IF k = 0 THEN "0" ELSE Digits[k]

\* What fmt.Fprintln(out, k) writes.
Fprintln(k) == [text |-> Itoa(k), nl |-> TRUE]

\* What fmt.Fprint(out, word) writes.
Fprint(word) == [text |-> word, nl |-> FALSE]

\* An entry of events.
Wrote(w) == [op |-> "write", text |-> w.text, nl |-> w.nl]
Slept == [op |-> "sleep", text |-> "", nl |-> FALSE]

\* Writes that may already be in the writer.
Earlier == {Fprint(finalWord), Fprintln(coundownStart)}

InitCountdown ==
    /\ SortIdle /\ CounterIdle /\ WalletIdle /\ TailsIdle
    /\ out \in SeqsUpTo(Earlier, MaxPrior)
    /\ duration \in 1..MaxDuration
    /\ clock = 0 /\ events = <<>> /\ ci = 0 /\ cpc = "call"

\* `i := coundownStart`
CountdownCall ==
    /\ cpc = "call"
    /\ ci' = coundownStart
    /\ cpc' = "for"
    /\ UNCHANGED <<out, clock, events, duration>>
    /\ UNCHANGED <<sortVars, counterVars, walletVars, tailsVars>>

\* Mutant: `i >= 0`.
CountingToZero(k) == k >= 0

\* `i > 0`, the condition of the loop
Counting(k) == k > 0

\* for ...; i > 0; ...
CountdownFor ==
    /\ cpc = "for"
    /\ cpc' = IF Counting(ci) THEN "Fprintln" ELSE "Fprint"
    /\ UNCHANGED <<out, clock, events, ci, duration>>
    /\ UNCHANGED <<sortVars, counterVars, walletVars, tailsVars>>

\* fmt.Fprintln(out, i)
CountdownFprintln ==
    /\ cpc = "Fprintln"
    /\ out' = Append(out, Fprintln(ci))
    /\ events' = Append(events, Wrote(Fprintln(ci)))
    /\ cpc' = "Sleep"
    /\ UNCHANGED <<clock, ci, duration>>
    /\ UNCHANGED <<sortVars, counterVars, walletVars, tailsVars>>

\* sleep.Sleep(), which is c.sleep(c.duration), and the `i--` of the loop
CountdownSleep ==
    /\ cpc = "Sleep"
    /\ clock' = clock + duration
    /\ events' = Append(events, Slept)
    /\ ci' = ci - 1
    /\ cpc' = "for"
    /\ UNCHANGED <<out, duration>>
    /\ UNCHANGED <<sortVars, counterVars, walletVars, tailsVars>>

\* fmt.Fprint(out, finalWord)
CountdownFprint ==
    /\ cpc = "Fprint"
    /\ out' = Append(out, Fprint(finalWord))
    /\ events' = Append(events, Wrote(Fprint(finalWord)))
    /\ cpc' = "done"
    /\ UNCHANGED <<clock, ci, duration>>
    /\ UNCHANGED <<sortVars, counterVars, walletVars, tailsVars>>

Countdown ==
    CountdownCall \/ CountdownFor \/ CountdownFprintln \/ CountdownSleep
        \/ CountdownFprint

SpecCountdown == InitCountdown /\ [][Countdown]_vars

(***************************************************************************)
(* arraysandslices: one call SumAllTails(tailsToSum...).  int is IntBits   *)
(* bits wide here, `sum += i` wraps around.  One turn of the range loop is *)
(* a step; Sum is computed as its loop computes it.                        *)
(***************************************************************************)

\* The tests call SumAllTails with two slices; calls with fewer are included.
MaxTails == 2

TailVals == 1..MaxTailVal

RECURSIVE SumFrom(_, _, _)
\* for _, i := range a { sum += i }, from the k-th element on, sum so far acc
SumFrom(a, k, acc) ==
    IF k > Len(a) THEN acc ELSE SumFrom(a, k + 1, Wrap(acc + a[k]))

\* func Sum(a []int) int
Sum(a) == SumFrom(a, 1, 0)

\* Mutant: `len(numbers) >= 0`.
NonEmptyOrEmpty(numbers) == Len(numbers) >= 0

\* `len(numbers) > 0`
NonEmpty(numbers) == Len(numbers) > 0

InitTails ==
    /\ SortIdle /\ CounterIdle /\ WalletIdle /\ CountdownIdle
    /\ tailsToSum \in SeqsUpTo(SeqsUpTo(TailVals, MaxTailLen), MaxTails)
    /\ sums = <<>> /\ tk = 0 /\ tpc = "range"

\* One turn of `for _, numbers := range tailsToSum`.  numbers[1:] of an empty
\* slice panics (slice bounds out of range).
TailsRange ==
    /\ tpc = "range" /\ tk < Len(tailsToSum)
    /\ LET numbers == tailsToSum[tk + 1]
       IN  IF NonEmpty(numbers)
              THEN IF Len(numbers) >= 1
                      THEN /\ sums' = Append(sums, Sum(SubSeq(numbers, 2, Len(numbers))))
                           /\ tk' = tk + 1
                           /\ UNCHANGED tpc
                      ELSE /\ tpc' = "panic"
                           /\ UNCHANGED <<sums, tk>>
              ELSE /\ sums' = Append(sums, 0)
                   /\ tk' = tk + 1
                   /\ UNCHANGED tpc
    /\ UNCHANGED tailsToSum
    /\ UNCHANGED <<sortVars, counterVars, walletVars, countdownVars>>

\* The range loop is over: `return sums`
TailsReturn ==
    /\ tpc = "range" /\ tk >= Len(tailsToSum)
    /\ tpc' = "done"
    /\ UNCHANGED <<tailsToSum, sums, tk>>
    /\ UNCHANGED <<sortVars, counterVars, walletVars, countdownVars>>

SumAllTails == TailsRange \/ TailsReturn

SpecTails == InitTails /\ [][SumAllTails]_vars

(***************************************************************************)
(* Sort as a function: what one call, run on its own, makes of sequence s. *)
(***************************************************************************)
RECURSIVE ScanAlone(_, _, _, _)
\* the inner loop from position k on; sw is the flag swapped
ScanAlone(s, k, bound, sw) ==
    IF ~InScan(k, bound)
       THEN [items |-> s, swapped |-> sw]
       ELSE IF Greater(s[k + 1], s[k + 2])
               THEN ScanAlone(Exchange(s, k), k + 1, bound, TRUE)
               ELSE ScanAlone(s, k + 1, bound, sw)

RECURSIVE PassesAlone(_, _, _)
\* the outer loop `for swapped { ...; n-- }`
PassesAlone(s, bound, sw) ==
    IF ~sw
       THEN s
       ELSE LET r == ScanAlone(s, 0, bound, FALSE)
            IN  PassesAlone(r.items, Shrink(bound), r.swapped)

SortAlone(s) == IF TooShort(Len(s)) THEN s ELSE PassesAlone(s, Len(s), TRUE)

(***************************************************************************)
(* Vocabulary of the properties.                                           *)
(***************************************************************************)
Done(c) == pc[c] = "done"

\* What the caller sees through the slice it got back.
Out(c) == Contents(ret[c])

Range(s) == {s[k] : k \in 1..Len(s)}
Count(s, v) == Cardinality({k \in 1..Len(s) : s[k] = v})

\* t is a rearrangement of s: same length, every value as often.
IsPermutation(s, t) ==
    /\ Len(s) = Len(t)
    /\ \A v \in Range(s) \cup Range(t) : Count(s, v) = Count(t, v)

\* s is non-decreasing in the natural order of the integers.
NonDecreasing(s) == \A k \in 1..(Len(s) - 1) : s[k] <= s[k + 1]

\* s is non-decreasing under the (total) comparator function f.
NonDecreasingUnder(f, s) == \A k \in 1..(Len(s) - 1) : f[<<s[k], s[k + 1]>>] <= 0

Sgn(x) == IF x > 0 THEN 1 ELSE IF x < 0 THEN 0 - 1 ELSE 0

\* f is a valid comparator: defined on every pair, sign-antisymmetric, transitive.
ValidComparator(f) ==
    /\ DOMAIN f = Pairs
    /\ \A a, b \in T : Sgn(f[<<a, b>>]) = 0 - Sgn(f[<<b, a>>])
    /\ \A a, b, d \in T :
          f[<<a, b>>] <= 0 /\ f[<<b, d>>] <= 0 => f[<<a, d>>] <= 0

\* The answers in f (a comparator as far as known) fit no valid comparator.
Malformed(f) ==
    ~ \E v \in ValidComparators : \A p \in DOMAIN f : Sgn(v[p]) = Sgn(f[p])

\* The elements of s that comparator f calls equal to x, in their order in s.
EqualTo(f, x, s) == SelectSeq(s, LAMBDA e : f[<<x, e>>] = 0)

\* The entries of log l with the given op.
Events(l, op) == SelectSeq(l, LAMBDA e : e.op = op)

\* t is s with two adjacent positions exchanged.
AdjacentExchange(s, t) ==
    /\ Len(t) = Len(s)
    /\ \E k \in 1..(Len(s) - 1) :
          /\ t[k] = s[k + 1] /\ t[k + 1] = s[k]
          /\ \A j \in 1..Len(s) : j \notin {k, k + 1} => t[j] = s[j]

(***************************************************************************)
(* Sort: the result is ordered and is a rearrangement of the input.        *)
(***************************************************************************)

\* C1: after Sort(S) returns, every adjacent pair of the result satisfies
\* result[i] <= result[i+1].
C1_SortNonDecreasing ==
    \A c \in Calls : fn[c] = "Sort" /\ Done(c) => NonDecreasing(Out(c))

\* A Sort call has returned whose input of MaxLen elements was strictly decreasing.
C1_Witness ==
    \E c \in Calls :
        /\ fn[c] = "Sort" /\ Done(c) /\ round[c] = 1
        /\ Len(input[c]) = MaxLen
        /\ \A k \in 1..(MaxLen - 1) : input[c][k] > input[c][k + 1]

\* C2: the result of Sort(S) is a permutation of S: same length, and every value
\* occurs exactly as often as in the input.
C2_SortPermutation ==
    \A c \in Calls : fn[c] = "Sort" /\ Done(c) => IsPermutation(input[c], Out(c))

\* A Sort call has returned that swapped, on an input with a duplicate and a
\* negative number.
C2_Witness ==
    \E c \in Calls :
        /\ fn[c] = "Sort" /\ Done(c) /\ round[c] = 1
        /\ Out(c) # input[c]
        /\ \E v \in Range(input[c]) : Count(input[c], v) >= 2
        /\ \E v \in Range(input[c]) : v < 0

(***************************************************************************)
(* SortWithComparator with a valid comparator.                             *)
(***************************************************************************)

\* C3: for a valid comparator C, after SortWithComparator(S, C) returns, every
\* adjacent pair of the result satisfies C(result[i], result[i+1]) <= 0.
C3_CmpNonDecreasing ==
    \A c \in Calls :
        fn[c] = "SortWithComparator" /\ Done(c) /\ ValidComparator(cmpfn[c])
            => NonDecreasingUnder(cmpfn[c], Out(c))

\* A SortWithComparator call has returned whose comparator is valid, whose input
\* of MaxLen elements had no adjacent pair in order, and in which the comparator
\* once returned more than 1.
C3_Witness ==
    \E c \in Calls :
        /\ fn[c] = "SortWithComparator" /\ Done(c) /\ round[c] = 1
        /\ ValidComparator(cmpfn[c])
        /\ Len(input[c]) = MaxLen
        /\ \A k \in 1..(MaxLen - 1) : cmpfn[c][<<input[c][k], input[c][k + 1]>>] >= 0
        /\ \E k \in 1..Len(log[c]) : log[c][k].op = "cmp" /\ log[c][k].r > 1

\* C4: for a valid comparator C, the result of SortWithComparator(S, C) is a
\* permutation of S.
C4_CmpPermutation ==
    \A c \in Calls :
        fn[c] = "SortWithComparator" /\ Done(c) /\ ValidComparator(cmpfn[c])
            => IsPermutation(input[c], Out(c))

\* A SortWithComparator call with a valid comparator has returned that swapped,
\* on an input in which a value occurs twice.
C4_Witness ==
    \E c \in Calls :
        /\ fn[c] = "SortWithComparator" /\ Done(c) /\ round[c] = 1
        /\ ValidComparator(cmpfn[c])
        /\ Out(c) # input[c]
        /\ \E v \in Range(input[c]) : Count(input[c], v) >= 2

\* C5: SortWithComparator is stable: for a valid comparator C, the elements that
\* C calls equal to one another are in the same relative order in the output as
\* in the input.
C5_CmpStable ==
    \A c \in Calls :
        fn[c] = "SortWithComparator" /\ Done(c) /\ ValidComparator(cmpfn[c])
            => \A x \in T :
                  EqualTo(cmpfn[c], x, Out(c)) = EqualTo(cmpfn[c], x, input[c])

\* The records (A,30),(B,25),(C,30) sorted by the second field: the call has
\* returned (B,25),(A,30),(C,30).
C5_Witness ==
    \E c \in Calls :
        /\ fn[c] = "SortWithComparator" /\ Done(c)
        /\ input[c] = <<1, 2, 3>>
        /\ cmpfn[c][<<1, 3>>] = 0 /\ cmpfn[c][<<1, 2>>] > 0
        /\ Out(c) = <<2, 1, 3>>

(***************************************************************************)
(* Both functions.                                                         *)
(***************************************************************************)

\* The slice s is non-decreasing under the order call c sorts by.
InOrderFor(c, s) ==
    IF fn[c] = "Sort"
       THEN NonDecreasing(s)
       ELSE ValidComparator(cmpfn[c]) /\ NonDecreasingUnder(cmpfn[c], s)

\* C6: a call on a sequence that is already non-decreasing under the order used
\* returns it unchanged at every position, and Sort(Sort(S)) = Sort(S).
C6_Idempotent ==
    \A c \in Calls :
        /\ \A k \in 1..Len(hist[c]) :
              InOrderFor(c, hist[c][k].in) => hist[c][k].out = hist[c][k].in
        /\ fn[c] = "Sort" /\ Len(hist[c]) >= 2 => hist[c][2].out = hist[c][1].out

\* Sort(Sort(S)) has returned, for an S of MaxLen elements that Sort(S) rearranged.
C6_Witness ==
    \E c \in Calls :
        /\ fn[c] = "Sort" /\ Done(c) /\ Len(hist[c]) = 2
        /\ Len(hist[c][1].in) = MaxLen
        /\ hist[c][1].out # hist[c][1].in
        /\ hist[c][2].in = hist[c][1].out

\* C7: on a sequence of length 0 or 1, Sort and SortWithComparator perform no
\* comparison (the comparator is never called) and return the sequence unchanged.
C7_ShortInput ==
    \A c \in Calls :
        fn[c] # "none" /\ Len(input[c]) <= 1
            => /\ Events(log[c], "cmp") = <<>>
               /\ heap[c] = input[c]
               /\ Done(c) => ret[c] = CallerSlice(c) /\ Out(c) = input[c]

\* SortWithComparator has returned from a call on a sequence of one element.
C7_Witness ==
    \E c \in Calls :
        fn[c] = "SortWithComparator" /\ Done(c) /\ Len(input[c]) = 1

\* C9: the calls work in place: the length of the caller's sequence never
\* changes, every write to it is an exchange of two adjacent positions, and the
\* returned slice is the caller's slice itself.
C9_InPlace ==
    /\ [][\A c \in Calls :
             heap'[c] = heap[c] \/ AdjacentExchange(heap[c], heap'[c])]_vars
    /\ [](\A c \in Calls :
             /\ Len(heap[c]) = Len(input[c])
             /\ Done(c) => ret[c] = CallerSlice(c) /\ Out(c) = heap[c])

\* A call on MaxLen elements has returned after at least two swaps.
C9_Witness ==
    \E c \in Calls :
        /\ Done(c) /\ Len(input[c]) = MaxLen
        /\ Len(Events(log[c], "swap")) >= 2
        /\ heap[c] # input[c]

(***************************************************************************)
(* SortWithComparator with an arbitrary comparator function.               *)
(***************************************************************************)

\* Every call that was made has returned.
AllReturned == \A c \in Calls : fn[c] # "none" => Done(c)

\* C8: SortWithComparator terminates for every comparator function, and calls
\* the comparator at most length^2 times.
C8_Terminates ==
    /\ <>AllReturned
    /\ [](\A c \in Calls :
             Len(Events(log[c], "cmp")) <= Len(input[c]) * Len(input[c]))

\* A call on MaxLen elements has returned whose comparator answered `after` for
\* every pair it was asked, an element and itself included.
C8_Witness ==
    \E c \in Calls :
        /\ Done(c) /\ Len(input[c]) = MaxLen
        /\ Malformed(cmpfn[c])
        /\ \A p \in DOMAIN cmpfn[c] : cmpfn[c][p] > 0
        /\ \E x \in T : <<x, x>> \in DOMAIN cmpfn[c]

\* C10: whatever the comparator function, SortWithComparator runs to completion
\* without failure: it never panics, every position it compares or swaps is
\* inside [0, length-1], and the result is a permutation of the input.
C10_NoFailure ==
    /\ <>AllReturned
    /\ [](\A c \in Calls :
             /\ pc[c] # "panic"
             /\ \A k \in 1..Len(log[c]) :
                   log[c][k].op \in {"cmp", "swap"}
                       => /\ 0 <= log[c][k].at
                          /\ log[c][k].at + 1 <= Len(input[c]) - 1
             /\ Done(c) => IsPermutation(input[c], Out(c)))

\* A call has returned after two swaps or more, its comparator having answered
\* `after` for a pair both ways round.
C10_Witness ==
    \E c \in Calls :
        /\ Done(c) /\ Len(Events(log[c], "swap")) >= 2
        /\ Malformed(cmpfn[c])
        /\ \E a, b \in T :
              /\ a # b
              /\ <<a, b>> \in DOMAIN cmpfn[c] /\ <<b, a>> \in DOMAIN cmpfn[c]
              /\ cmpfn[c][<<a, b>>] > 0 /\ cmpfn[c][<<b, a>>] > 0

(***************************************************************************)
(* Two runs of SortWithComparator.                                         *)
(***************************************************************************)

\* Calls c and d were given the same comparator function, as far as it is known.
SameComparator(c, d) ==
    \A p \in (DOMAIN cmpfn[c]) \cap (DOMAIN cmpfn[d]) : cmpfn[c][p] = cmpfn[d][p]

\* C11: two runs of SortWithComparator on equal inputs with the same comparator
\* function, valid or not, perform the same comparisons and swaps in the same
\* order and end in the same arrangement.
C11_Deterministic ==
    \A c, d \in Calls :
        /\ fn[c] = "SortWithComparator" /\ fn[d] = "SortWithComparator"
        /\ Done(c) /\ Done(d)
        /\ input[c] = input[d] /\ SameComparator(c, d)
        => log[c] = log[d] /\ Out(c) = Out(d)

\* Two runs on equal inputs of MaxLen elements have returned, after two swaps or
\* more, with a comparator whose answers fit no valid comparator.
C11_Witness ==
    /\ Done(1) /\ Done(2)
    /\ input[1] = input[2] /\ Len(input[1]) = MaxLen
    /\ Malformed(cmpfn[1])
    /\ Len(Events(log[2], "swap")) >= 2

(***************************************************************************)
(* Two concurrent calls of Sort.                                           *)
(***************************************************************************)

\* All that belongs to call c: its backing array, its parameter, its locals, its
\* position, its result.
Frame(c) == <<heap[c], items[c], n[c], i[c], swapped[c], pc[c], ret[c], log[c]>>

\* C12: two Sort calls on two separate sequences, interleaved in any way, each
\* end with the arrangement the call produces when run alone, and no step of
\* one call changes anything of the other call.
C12_Independent ==
    /\ [](\A c \in Calls : Done(c) => Out(c) = SortAlone(input[c]))
    /\ [][\E c \in Calls : \A d \in Calls \ {c} : Frame(d)' = Frame(d)]_vars

\* Both calls have returned, each from a different input of ParLen elements that
\* it had to rearrange.
C12_Witness ==
    /\ Done(1) /\ Done(2)
    /\ Len(input[1]) = ParLen /\ Len(input[2]) = ParLen
    /\ input[1] # input[2]
    /\ Out(1) # input[1] /\ Out(2) # input[2]

(***************************************************************************)
(* The course of one call: passes, comparisons, swaps.                     *)
(***************************************************************************)

\* The positions compared so far by the running call, in order.
ComparedAt(c) ==
    LET cmps == Events(log[c], "cmp") IN [k \in 1..Len(cmps) |-> cmps[k].at]

\* C13: best case.  On an input of length n >= 2 that is already non-decreasing,
\* Sort, and SortWithComparator with a valid comparator, perform exactly one
\* pass of n-1 comparisons and no swap, and return with swapped still false.
C13_BestCase ==
    \A c \in Calls :
        fn[c] # "none" /\ Len(input[c]) >= 2 /\ InOrderFor(c, input[c])
            => /\ Events(log[c], "swap") = <<>>
               /\ Len(Events(log[c], "pass")) <= 1
               /\ Done(c)
                     => /\ Len(Events(log[c], "pass")) = 1
                        /\ ComparedAt(c) = [k \in 1..(Len(input[c]) - 1) |-> k - 1]
                        /\ swapped[c] = FALSE
                        /\ Out(c) = input[c]

\* Sort has returned from a non-decreasing input of MaxLen elements, two of them
\* equal.
C13_Witness ==
    \E c \in Calls :
        /\ fn[c] = "Sort" /\ Done(c)
        /\ Len(input[c]) = MaxLen /\ NonDecreasing(input[c])
        /\ \E v \in Range(input[c]) : Count(input[c], v) >= 2
        /\ Len(Events(log[c], "cmp")) = MaxLen - 1

(***************************************************************************)
(* The order of the result under an arbitrary comparator function.         *)
(***************************************************************************)

\* The valid comparator v answers as the comparator of call c has answered.
Fits(v, c) == \A p \in DOMAIN cmpfn[c] : Sgn(v[p]) = Sgn(cmpfn[c][p])

\* C14 as claimed: after any completed SortWithComparator call, whatever the
\* comparator function, every adjacent pair of the final sequence satisfies
\* comparator(seq[i], seq[i+1]) <= 0.  (Judged on the pairs the comparator has
\* been asked about: its value on the others is not determined by the run.)
C14_AnyComparatorOrdered ==
    \A c \in Calls :
        fn[c] = "SortWithComparator" /\ Done(c)
            => \A k \in 1..(Len(Out(c)) - 1) :
                  <<Out(c)[k], Out(c)[k + 1]>> \in DOMAIN cmpfn[c]
                      => cmpfn[c][<<Out(c)[k], Out(c)[k + 1]>>] <= 0

\* C14 as amended: after a completed SortWithComparator call whose comparator is
\* valid, every adjacent pair of the final sequence satisfies
\* comparator(seq[i], seq[i+1]) <= 0: the final sequence is non-decreasing under
\* every valid comparator that answers as the call's comparator answered.
C14_ValidComparatorOrdered ==
    \A c \in Calls :
        fn[c] = "SortWithComparator" /\ Done(c)
            => \A v \in ValidComparators :
                  Fits(v, c) => NonDecreasingUnder(v, Out(c))

\* A call on MaxLen elements has returned after two swaps or more, and its
\* comparator, which once answered `equal` for two different elements, answered
\* as some valid comparator does.
C14_Witness ==
    \E c \in Calls :
        /\ fn[c] = "SortWithComparator" /\ Done(c)
        /\ Len(input[c]) = MaxLen
        /\ Len(Events(log[c], "swap")) >= 2
        /\ \E v \in ValidComparators : Fits(v, c)
        /\ \E a, b \in T :
              a # b /\ <<a, b>> \in DOMAIN cmpfn[c] /\ cmpfn[c][<<a, b>>] = 0

(***************************************************************************)
(* Sorting by age with `a.Age - b.Age`.                                    *)
(***************************************************************************)

\* C15: for every sequence of Person records and every Age of the machine
\* integer type, SortWithComparator with the comparator a.Age - b.Age (computed
\* modulo 2^w) returns the records in non-decreasing Age order.
C15_AgeOrder ==
    \A c \in Calls :
        fn[c] = "SortWithComparator" /\ Done(c) => NonDecreasing(Out(c))

(***************************************************************************)
(* The swap condition.                                                     *)
(***************************************************************************)

\* Call c is about to compare items[i] with items[i+1].
Comparing(c) == pc[c] = "inner" /\ i[c] < n[c] - 1

\* The step appends a swap of positions (k, k+1) to the log of call c.
SwapLogged(c, k) ==
    /\ Len(log'[c]) = Len(log[c]) + 2
    /\ log'[c][Len(log'[c])] = Ev("swap", k, 0)

\* The step appends no swap to the log of call c.
NoSwapLogged(c) ==
    \A k \in (Len(log[c]) + 1)..Len(log'[c]) : log'[c][k].op # "swap"

\* The left element of the pair compares strictly after the right one: by `>`
\* in Sort, by the comparator's answer in SortWithComparator.
StrictlyAfter(c, left, right) ==
    IF fn[c] = "Sort" THEN left > right ELSE cmpfn'[c][<<left, right>>] > 0

\* C16: at every step of Sort and SortWithComparator, two adjacent elements are
\* exchanged if and only if the left one compares strictly after the right one
\* (items[i] > items[i+1], comparator(items[i], items[i+1]) > 0); a pair that
\* compares equal or in order is not exchanged, and a step that compares nothing
\* exchanges nothing.
C16_StrictSwap ==
    [][\A c \in Calls :
          IF Comparing(c) /\ pc'[c] # "panic"
          THEN LET a == items[c].arr
                   left == At(c, i[c])
                   right == At(c, i[c] + 1)
               IN  IF StrictlyAfter(c, left, right)
                   THEN /\ SwapLogged(c, i[c])
                        /\ heap'[a] = [heap[a] EXCEPT ![i[c] + 1] = right,
                                                      ![i[c] + 2] = left]
                   ELSE /\ NoSwapLogged(c)
                        /\ heap'[a] = heap[a]
          ELSE NoSwapLogged(c) /\ heap'[c] = heap[c]]_vars

\* A finished SortWithComparator call that met a pair in order, an equal pair
\* of distinct elements and a pair out of order, and swapped only the last.
C16_Witness ==
    \E c \in Calls :
        /\ Done(c) /\ fn[c] = "SortWithComparator"
        /\ \E k \in 1..Len(log[c]) : log[c][k].op = "cmp" /\ log[c][k].r < 0
        /\ \E k \in 1..(Len(log[c]) - 1) :
              /\ log[c][k].op = "cmp" /\ log[c][k].r = 0
              /\ log[c][k + 1].op # "swap"
              /\ At(c, log[c][k].at) # At(c, log[c][k].at + 1)
        /\ \E k \in 1..(Len(log[c]) - 1) :
              log[c][k].op = "cmp" /\ log[c][k].r > 0 /\ log[c][k + 1].op = "swap"
        /\ Cardinality({k \in 1..Len(log[c]) : log[c][k].op = "swap"}) = 1

(***************************************************************************)
(* The pass invariant.  After k passes the bound n is len(items) - k, so   *)
(* the last k positions are the positions n+1 .. len(items) (one-based).   *)
(***************************************************************************)

\* Call c is between its entry and its return statement.
InLoop(c) == pc[c] \in {"outer", "inner", "return", "done"}

\* a does not sort after b, in the order call c sorts by.
NotAfter(c, a, b) ==
    IF fn[c] = "Sort" THEN a <= b ELSE cmpfn[c][<<a, b>>] <= 0

\* The positions behind the bound of call c.
Settled(c) == (n[c] + 1)..items[c].len

\* C17: with a valid order, after the k-th pass completes (1 <= k <= length) the
\* last k positions hold the k largest elements in non-decreasing order, these
\* are their final values, and no later pass reads or writes those positions.
C17_PassInvariant ==
    /\ [](\A c \in Calls :
            InLoop(c) =>
                LET h == heap[items[c].arr]
                IN  /\ n[c] >= 0
                    /\ \A p \in Settled(c) : \A q \in 1..(p - 1) : NotAfter(c, h[q], h[p]))
    /\ [][\A c \in Calls :
            InLoop(c) =>
                /\ \A p \in Settled(c) : heap'[items[c].arr][p] = heap[items[c].arr][p]
                /\ \A k \in (Len(log[c]) + 1)..Len(log'[c]) :
                      log'[c][k].op \in {"cmp", "swap"} =>
                          log'[c][k].at + 2 \notin Settled(c)]_vars

\* A call on three elements is in its third pass, after two passes that both
\* moved elements: the last two positions are settled.
C17_Witness ==
    \E c \in Calls :
        /\ fn[c] = "SortWithComparator" /\ pc[c] = "outer" /\ swapped[c]
        /\ items[c].len = 3 /\ n[c] = 1
        /\ Contents(items[c])[2] # input[c][2]
        /\ Contents(items[c])[3] # input[c][3]

(***************************************************************************)
(* The comparisons of a call, pass by pass.                                *)
(***************************************************************************)

\* The passes and comparisons of a log in order: the bound of a pass as
\* <<"pass", n>>, the left position of a compared pair as <<"cmp", i>>.
Scanned(l) ==
    LET noswap == SelectSeq(l, LAMBDA e : e.op # "swap")
    IN  [k \in 1..Len(noswap) |->
            IF noswap[k].op = "pass" THEN <<"pass", noswap[k].r>>
                                     ELSE <<"cmp", noswap[k].at>>]

\* Pass k of a call on len elements, cut after its first m comparisons: bound
\* len - k + 1, pairs (0,1), (1,2), ... from left to right.
PassPrefix(len, k, m) ==
    <<(<<"pass", len - k + 1>>)>> \o [j \in 1..m |-> <<"cmp", j - 1>>]

RECURSIVE FullPasses(_, _)
\* The first k passes of a call on len elements, pass j with len - j comparisons.
FullPasses(len, k) ==
    IF k = 0 THEN <<>>
    ELSE FullPasses(len, k - 1) \o PassPrefix(len, k, len - k)

\* The number of passes call c has started.
Passes(c) == Len(Events(log[c], "pass"))

\* C18: the scan bound shrinks by exactly one after every pass, swapped or not:
\* the k-th pass compares exactly the pairs (0,1), (1,2), ..., (length-k-1,
\* length-k) from left to right, length-k comparisons, and the comparisons of a
\* call are at most length*(length-1)/2.
C18_ShrinkingScan ==
    \A c \in Calls :
        InLoop(c) =>
            LET len == items[c].len
            IN  /\ IF pc[c] = "inner"
                      THEN /\ n[c] = len - Passes(c) + 1
                           /\ Scanned(log[c]) =
                                  FullPasses(len, Passes(c) - 1)
                                      \o PassPrefix(len, Passes(c), i[c])
                      ELSE /\ n[c] = len - Passes(c)
                           /\ Scanned(log[c]) = FullPasses(len, Passes(c))
                /\ 2 * Len(Events(log[c], "cmp")) <= len * (len - 1)

\* A call that needed every pass: as many passes as elements, the last one
\* without a swap, and length*(length-1)/2 comparisons.
C18_Witness ==
    \E c \in Calls :
        /\ Done(c) /\ items[c].len = 3 /\ Passes(c) = 3 /\ n[c] = 0
        /\ Len(Events(log[c], "cmp")) = 3
        /\ log[c][Len(log[c])].op = "pass"

(***************************************************************************)
(* Early termination.                                                      *)
(***************************************************************************)

\* The last pass of log l swapped something.
LastPassSwapped(l) ==
    \E k \in 1..Len(l) :
        l[k].op = "swap" /\ \A j \in (k + 1)..Len(l) : l[j].op # "pass"

\* C19: the outer loop of Sort and SortWithComparator starts another pass if
\* and only if the pass just finished performed at least one swap; the call
\* returns directly after the first pass with zero swaps, every pass before the
\* last one performed at least one swap, and the number of passes never exceeds
\* the length of the sequence.
C19_EarlyTermination ==
    /\ [](\A c \in Calls :
            InLoop(c) =>
                /\ \A k \in 2..Len(log[c]) :
                      log[c][k].op = "pass" => LastPassSwapped(SubSeq(log[c], 1, k - 1))
                /\ Passes(c) <= items[c].len
                /\ pc[c] \in {"return", "done"} /\ items[c].len >= 2 =>
                      Passes(c) >= 1 /\ ~LastPassSwapped(log[c]))
    /\ [][\A c \in Calls :
            pc[c] = "outer" /\ Passes(c) >= 1 =>
                /\ LastPassSwapped(log[c]) =>
                      pc'[c] = "inner" /\ Passes(c)' = Passes(c) + 1
                /\ ~LastPassSwapped(log[c]) =>
                      pc'[c] = "return" /\ log'[c] = log[c]]_vars

\* Sort returned after its second pass, the first one without a swap, although
\* three passes fit the length.
C19_Witness ==
    \E c \in Calls :
        /\ fn[c] = "Sort" /\ Done(c)
        /\ items[c].len = 3 /\ Passes(c) = 2
        /\ Len(Events(log[c], "swap")) = 2

(***************************************************************************)
(* Sort against SortWithComparator with the natural order.                 *)
(***************************************************************************)

\* A log with each comparison reduced to its outcome: left after right or not.
Outcomes(l) ==
    [k \in 1..Len(l) |->
        IF l[k].op = "cmp" THEN <<"cmp", l[k].at, l[k].r > 0>>
                           ELSE <<l[k].op, l[k].at, l[k].r>>]

\* One of s and t is the beginning of the other.
OnePrefixOfOther(s, t) ==
    \A k \in 1..(IF Len(s) < Len(t) THEN Len(s) ELSE Len(t)) : s[k] = t[k]

\* C20: for every input sequence S of integers, SortWithComparator(S, C) with C
\* a three-way comparator of the natural order goes through the same sequence of
\* intermediate arrangements, comparisons and swaps as Sort(S) and ends with the
\* same result.
C20_Equivalent ==
    \A c \in Calls : \A d \in Calls :
        fn[c] = "Sort" /\ fn[d] = "SortWithComparator" /\ input[c] = input[d] =>
            /\ OnePrefixOfOther(Outcomes(log[c]), Outcomes(log[d]))
            /\ pc[c] = pc[d] /\ Len(log[c]) = Len(log[d]) =>
                  /\ Contents(items[c]) = Contents(items[d])
                  /\ n[c] = n[d] /\ i[c] = i[d] /\ swapped[c] = swapped[d]
            /\ Done(c) /\ Done(d) =>
                  /\ Outcomes(log[c]) = Outcomes(log[d])
                  /\ Out(c) = Out(d)

\* Both calls are done on an input with two equal elements that took two swaps,
\* and the comparator answered with a number Sort's log never holds.
C20_Witness ==
    \E c \in Calls : \E d \in Calls :
        /\ fn[c] = "Sort" /\ fn[d] = "SortWithComparator" /\ input[c] = input[d]
        /\ Done(c) /\ Done(d)
        /\ Len(input[c]) = 3 /\ Cardinality(Range(input[c])) = 2
        /\ Len(Events(log[c], "swap")) = 2
        /\ \E k \in 1..Len(log[d]) : log[d][k].op = "cmp" /\ log[d][k].r = 2
        /\ \E k \in 1..Len(log[d]) : log[d][k].op = "cmp" /\ log[d][k].r = 0

(***************************************************************************)
(* Swaps and inversions.                                                   *)
(***************************************************************************)

\* The pairs of positions of call c's input that are out of order: the earlier
\* element sorts strictly after the later one.
Inversions(c) ==
    {p \in (1..Len(input[c])) \X (1..Len(input[c])) :
        p[1] < p[2] /\ ~NotAfter(c, input[c][p[1]], input[c][p[2]])}

\* Every element of call c's input sorts strictly after the next one.
StrictlyDecreasing(c) ==
    \A k \in 1..(Len(input[c]) - 1) : ~NotAfter(c, input[c][k], input[c][k + 1])

\* C21: for every input and valid order the number of swaps of a call equals
\* the number of inversions of its input; a strictly decreasing input of length
\* n takes n*(n-1)/2 swaps and n*(n-1)/2 comparisons.
C21_SwapsAreInversions ==
    \A c \in Calls :
        Done(c) =>
            LET len == Len(input[c])
                swaps == Len(Events(log[c], "swap"))
                cmps == Len(Events(log[c], "cmp"))
            IN  /\ swaps = Cardinality(Inversions(c))
                /\ StrictlyDecreasing(c) =>
                      2 * swaps = len * (len - 1) /\ 2 * cmps = len * (len - 1)

\* Sort finished a strictly decreasing input of three elements with three swaps.
C21_Witness ==
    \E c \in Calls :
        /\ Done(c) /\ fn[c] = "Sort" /\ Len(input[c]) = 3
        /\ StrictlyDecreasing(c)
        /\ Len(Events(log[c], "swap")) = 3
        /\ Len(Events(log[c], "cmp")) = 3

(***************************************************************************)
(* Two sorts of one slice as a multi-key sort.                             *)
(***************************************************************************)

\* Call d is the second sort of the slice call c sorted.
SortedAgain(c, d) ==
    /\ fn[c] = "SortWithComparator" /\ fn[d] = "SortWithComparator"
    /\ round[c] = 1 /\ round[d] = 2 /\ d = c + 1
    /\ Done(c) /\ Done(d)

\* The elements of s that both comparators f and g report equal to x, in order.
TiedWith(f, g, x, s) ==
    SelectSeq(s, LAMBDA y : f[<<x, y>>] = 0 /\ g[<<x, y>>] = 0)

\* C22: sorting with valid comparator C1 and then sorting the same, already
\* mutated sequence with valid comparator C2 leaves it non-decreasing under C2,
\* with elements equal under C2 in non-decreasing C1 order; the result depends
\* on the order of the first input only through the order of its C1-ties.
C22_MultiKey ==
    \A c \in Calls : \A d \in Calls :
        SortedAgain(c, d) =>
            LET C1 == cmpfn[c]
                C2 == cmpfn[d]
                res == Out(d)
            IN  /\ IsPermutation(input[c], res)
                /\ NonDecreasingUnder(C2, res)
                /\ \A p \in 1..Len(res) : \A q \in (p + 1)..Len(res) :
                      C2[<<res[p], res[q]>>] = 0 => C1[<<res[p], res[q]>>] <= 0
                /\ \A x \in Range(res) :
                      TiedWith(C1, C2, x, res) = TiedWith(C1, C2, x, input[c])

\* Three people were sorted by age and then by name, both calls moved elements,
\* and two people of one name ended in the order of their ages, which is not
\* the order they started in.
C22_Witness ==
    \E c \in Calls : \E d \in Calls :
        /\ SortedAgain(c, d)
        /\ cmpfn[c] = ByAge /\ cmpfn[d] = ByName
        /\ Len(input[c]) = 3
        /\ Len(Events(log[c], "swap")) >= 1 /\ Len(Events(log[d], "swap")) >= 1
        /\ \E p \in 1..3 : \E q \in (p + 1)..3 :
              /\ input[c][p].Name = input[c][q].Name
              /\ input[c][p].Age > input[c][q].Age

(***************************************************************************)
(* The interface-based BubbleSort against Sort.                            *)
(***************************************************************************)

\* The people of s whose Age is a, in order.
OfAge(a, s) == SelectSeq(s, LAMBDA e : e.Age = a)

\* C23: the interface-based BubbleSort (no early-termination flag, swap when
\* Less(j+1, j)) leaves every IntSlice in the arrangement Sort returns for the
\* same input, and sorts every PersonSlice by Age keeping people of the same
\* Age in their input order.
C23_InterfaceSort ==
    /\ \A c \in Calls : \A d \in Calls :
          /\ fn[c] = "Sort" /\ fn[d] = OnIntSlice /\ input[c] = input[d]
          /\ Done(c) /\ Done(d)
          => Contents(CallerSlice(d)) = Out(c)
    /\ \A c \in Calls :
          fn[c] = OnPersonSlice /\ Done(c) =>
              LET res == Contents(CallerSlice(c))
              IN  /\ \A k \in 1..(Len(res) - 1) : res[k].Age <= res[k + 1].Age
                  /\ \A a \in Ages : OfAge(a, res) = OfAge(a, input[c])

\* BubbleSort rearranged three people of whom two have the same Age and
\* different names.
C23_Witness ==
    \E c \in Calls :
        /\ fn[c] = OnPersonSlice /\ Done(c)
        /\ Len(input[c]) = 3
        /\ Contents(CallerSlice(c)) # input[c]
        /\ \E a \in Ages : Cardinality(Range(OfAge(a, input[c]))) = 2

(***************************************************************************)
(* Counter.Inc under concurrency.                                          *)
(***************************************************************************)

\* Goroutine g is between Lock and Unlock.
InCritical(g) == gpc[g] \in {"defer", "load", "store", "Unlock"}

\* The goroutines that call Inc.
Callers == {g \in Goroutines : gpc[g] # "idle"}

\* C24: when k goroutines each call Inc once on one Counter, under every
\* interleaving at most one goroutine is between Lock and Unlock at a time,
\* every Inc has released the mutex when it returns, and after all k calls have
\* returned Count is its initial value plus k.
C24_NoLostUpdate ==
    /\ \A g \in Goroutines : \A h \in Goroutines :
          InCritical(g) /\ InCritical(h) => g = h
    /\ \A g \in Goroutines : gpc[g] \notin {"idle", "Lock"} => (InCritical(g) <=> mu = g)
    /\ \A g \in Goroutines : gpc[g] # "fatal"
    /\ (\A g \in Callers : gpc[g] = "returned") =>
          mu = 0 /\ count = initial + Cardinality(Callers)

\* Three goroutines have called Inc on a counter that did not start at zero,
\* and all have returned.
C24_Witness ==
    /\ Cardinality(Callers) = 3
    /\ \A g \in Callers : gpc[g] = "returned"
    /\ initial > 0 /\ count = initial + 3

(***************************************************************************)
(* Wallet.Withdraw.                                                        *)
(***************************************************************************)

RECURSIVE AmountOf(_)
\* The sum of the amounts of the calls in h.
AmountOf(h) == IF h = <<>> THEN 0 ELSE Head(h).amount + AmountOf(Tail(h))

\* The calls of Deposit in h.
Deposits(h) == SelectSeq(h, LAMBDA e : e.name = "Deposit")

\* The calls of Withdraw in h that returned nil.
Withdrawals(h) == SelectSeq(h, LAMBDA e : e.name = "Withdraw" /\ e.err = "nil")

\* C26: starting from a zero-value Wallet, after any sequence of Deposit and
\* Withdraw calls with non-negative amounts the balance is never negative and
\* equals the sum of all deposited amounts minus the sum of the amounts of the
\* withdrawals that returned nil.
C26_BalanceIsSum ==
    /\ balance >= 0
    /\ balance = AmountOf(Deposits(ops)) - AmountOf(Withdrawals(ops))

(***************************************************************************)
(* The order of the events of Countdown.                                   *)
(***************************************************************************)

\* write 3, Sleep, write 2, Sleep, write 1, Sleep, write "Go!"
CountdownOrder ==
    << [op |-> "write", text |-> "3", nl |-> TRUE], [op |-> "sleep", text |-> "", nl |-> FALSE],
       [op |-> "write", text |-> "2", nl |-> TRUE], [op |-> "sleep", text |-> "", nl |-> FALSE],
       [op |-> "write", text |-> "1", nl |-> TRUE], [op |-> "sleep", text |-> "", nl |-> FALSE],
       [op |-> "write", text |-> "Go!", nl |-> FALSE] >>

\* The writes among the events l, in order.
Writes(l) ==
    LET w == SelectSeq(l, LAMBDA e : e.op = "write")
    IN  [k \in 1..Len(w) |-> [text |-> w[k].text, nl |-> w[k].nl]]

\* C27: Countdown emits its events in a fixed order: write 3, Sleep, write 2,
\* Sleep, write 1, Sleep, write "Go!"; Sleep is called exactly 3 times, each
\* directly after the write of a number, and the final word is written exactly
\* once, after the last Sleep.
C27_CountdownOrder ==
    /\ Len(events) <= Len(CountdownOrder)
    /\ events = SubSeq(CountdownOrder, 1, Len(events))
    /\ Len(out) >= Len(Writes(events))
    /\ SubSeq(out, Len(out) - Len(Writes(events)) + 1, Len(out)) = Writes(events)
    /\ cpc = "done" =>
          /\ events = CountdownOrder
          /\ Len(SelectSeq(events, LAMBDA e : e.op = "sleep")) = 3
          /\ clock = 3 * duration

\* Countdown has returned; the writer already held the final word, and each
\* Sleep took two units of time.
C27_Witness ==
    /\ cpc = "done" /\ Len(events) = 7
    /\ duration = 2 /\ clock = 6
    /\ Len(out) = 6 /\ out[1].text = "Go!" /\ out[6].text = "Go!"

(***************************************************************************)
(* The results of SumAllTails.                                             *)
(***************************************************************************)

RECURSIVE Total(_)
\* The sum of the integers of s, in the integers.
Total(s) == IF s = <<>> THEN 0 ELSE Total(SubSeq(s, 1, Len(s) - 1)) + s[Len(s)]

====
